---- MODULE Spec2Model ----
(***************************************************************************)
(* AI Chess Set Generator: the generation-orchestration workflow of the    *)
(* App component (src/unnamed/part_001), its piece cards and edit modal.   *)
(*                                                                         *)
(* The program is a single-threaded event loop.  A step of the model is    *)
(* one macrotask: a user intent (an event handler run up to its first      *)
(* await on a remote call) or the settlement of a remote call (the         *)
(* continuation of the awaiting async function, run up to its next await   *)
(* on a remote call or to its end).  The state setters called within one   *)
(* step are applied in order; a handler reads the state of the render in   *)
(* which it was created (its closure), which is the state at the moment    *)
(* of the user intent.                                                     *)
(***************************************************************************)
EXTENDS Naturals, Sequences, FiniteSets, Bags, TLC

\* ------------------------------------------------------------- bounds

\* Number of user intents (typing, clicks, submits) in one run.
MaxIntents == 4
\* Number of user intents in one run of the user who only types two themes and
\* clicks Generate King and Generate Full Set.
MaxDeepIntents == 5
\* Number of user intents in one run of the user who generates and edits the
\* King and the Rook under one theme.
MaxEditIntents == 8
\* Number of calls of the handlers in one run that calls them directly.
MaxDirectIntents == 6
\* Number of calls of handleDownloadSet in one run of the export.
MaxExportIntents == 2

\* ---------------------------------------------------------- constants

Null == "null"

\* promptUsed: undefined
Undefined == <<>>

\* globalError: null
NoError == <<>>

PieceType == {"King", "Queen", "Rook", "Bishop", "Knight", "Pawn"}

\* The six kinds in another order (that of their names)
PieceTypesByName == <<"Bishop", "King", "Knight", "Pawn", "Queen", "Rook">>

PIECE_TYPES_ORDERED == <<"King", "Queen", "Rook", "Bishop", "Knight", "Pawn">>

DEFAULT_PIECE_DESCRIPTIONS ==
  [ King   |-> "A majestic and commanding King chess piece",
    Queen  |-> "An elegant and powerful Queen chess piece",
    Rook   |-> "A sturdy and formidable Rook chess piece, resembling a castle tower",
    Bishop |-> "A wise and strategic Bishop chess piece, with a distinctive mitre-like top",
    Knight |-> "A dynamic and agile Knight chess piece, typically represented by a horse's head and neck",
    Pawn   |-> "A humble yet determined Pawn chess piece, the frontline footsoldier of the set" ]

\* A theme is a string: a sequence of characters.
EXAMPLE_THEMES ==
  { <<"S","u","n","k","e","n"," ","C","i","t","y"," ","o","f"," ","A","t","l","a","n","t","i","s">>,
    <<"S","t","e","a","m","p","u","n","k"," ","A","v","i","a","t","o","r","s">>,
    <<"O","r","i","g","a","m","i"," ","W","a","r","r","i","o","r","s">> }

\* The values the user leaves in the theme input: empty, white space only, a
\* theme, the same theme in another case and with white space around it, and
\* another theme.
TypedThemes == {<<>>, <<" ">>, <<"a">>, <<"A">>, <<" ", "a">>, <<"b">>}

\* What the remote collaborators answer.
\* response.text of the style-guide call: a paragraph, or nothing (falsy).
EmptyText == ""
GuideTexts == {"guide1", "guide2"}
\* The data URL of a generated image, and of an edited one.
Images == {"data:image/jpeg;base64,generated"}
EditedImages == {"data:image/png;base64,edited"}
\* The message of the Error generateChessPieceImage / editChessPieceImage throw.
ImageErrorMessages == {"Gemini API Error: No image data received from Gemini API."}
EditErrorMessages == {"Gemini API Error: No image data received from Gemini API after edit."}
StyleGuideErrorMessage == "Failed to generate the art style guide."
\* The piece cards whose own buttons the user clicks (Generate Full Set covers
\* all six pieces).
ClickedCards == {"King", "Rook"}
\* What the user types into the edit modal (editPrompt.trim() is not empty).
EditPrompts == {"Make it silver"}

\* -------------------------------------------------------------- state

VARIABLES
  theme, chessSet, loadingStates, globalError, isGeneratingAll, apiKeyMissing,
  styleGuide, styleGuideTheme, isGeneratingStyleGuide, editingPiece, isEditing,
  apiKey,       \* process.env.API_KEY is set
  mounted,      \* the mount effect has run
  calls,        \* the async handlers suspended at an await of a remote call (a bag)
  guideSource,  \* history: the theme whose style-guide request produced styleGuide
  intents,      \* the number of user intents the run has left
  declined,     \* history: the operations that returned at their guard, each
                \* with the target of the edit session at that moment
  downloads,    \* the archives the page has handed to the browser, in order
  cleared       \* history: the set was cleared and no generation was started since

vars == <<theme, chessSet, loadingStates, globalError, isGeneratingAll, apiKeyMissing,
          styleGuide, styleGuideTheme, isGeneratingStyleGuide, editingPiece, isEditing,
          apiKey, mounted, calls, guideSource, intents, declined, downloads, cleared>>

\* ------------------------------------------------------ pure functions

\* String.prototype.trim on a sequence of characters
RECURSIVE TrimStart(_)
TrimStart(s) == IF s # <<>> /\ Head(s) = " " THEN TrimStart(Tail(s)) ELSE s

RECURSIVE TrimEnd(_)
TrimEnd(s) ==
  IF s # <<>> /\ s[Len(s)] = " " THEN TrimEnd(SubSeq(s, 1, Len(s) - 1)) ELSE s

Trim(s) == TrimEnd(TrimStart(s))

LowerChar(ch) ==
  CASE ch = "A" -> "a"
    [] ch = "C" -> "c"
    [] ch = "O" -> "o"
    [] ch = "S" -> "s"
    [] ch = "W" -> "w"
    [] OTHER -> ch

\* String.prototype.toLowerCase
ToLowerCase(s) == [i \in DOMAIN s |-> LowerChar(s[i])]

initialChessSet ==
  [type \in PieceType |-> [type |-> type, imageUrl |-> Null, promptUsed |-> Undefined]]

initialLoadingStates == [type \in PieceType |-> FALSE]

\* The error strings, as the sequence of their parts.
ApiKeyMissingError ==
  <<"Gemini API Key is missing. Please ensure it's configured in your environment.">>
EnterThemeError == <<"Please enter a theme first.">>
NoArtDirectionError == <<"Could not proceed without an art direction.">>
ArtDirectionError(message) == <<"Failed to establish art direction: ", message>>
GenerateError(pieceType, message) == <<"Failed to generate ", pieceType, ": ", message>>
EditError(pieceType, message) == <<"Failed to edit ", pieceType, ": ", message>>

\* globalError.startsWith("Failed to generate")
StartsWithFailedToGenerate(error) == error # NoError /\ Head(error) = "Failed to generate "

\* globalError.includes("API Key")
IncludesApiKey(error) == error = ApiKeyMissingError

\* fullPrompt of handleGeneratePiece: the base description, the style guide and
\* the theme, embedded verbatim in the fixed template text.
FullPrompt(pieceType, currentTheme, currentStyleGuide) ==
  <<DEFAULT_PIECE_DESCRIPTIONS[pieceType], currentStyleGuide, currentTheme>>

\* promptUsed of an edited piece: `Edited: "${editPrompt}"`
EditedPrompt(editPrompt) == <<"Edited: \"", editPrompt, "\"">>

\* The characters /[^a-z0-9]/gi leaves in the name of the archive
AlphaNumerics ==
  { "a","b","c","d","e","f","g","h","i","j","k","l","m",
    "n","o","p","q","r","s","t","u","v","w","x","y","z",
    "A","B","C","D","E","F","G","H","I","J","K","L","M",
    "N","O","P","Q","R","S","T","U","V","W","X","Y","Z",
    "0","1","2","3","4","5","6","7","8","9" }

\* themeName of handleDownloadSet
ThemeName(t) ==
  LET replaced == [i \in DOMAIN t |-> IF t[i] \in AlphaNumerics THEN t[i] ELSE "_"]
  IN IF replaced = <<>>
     THEN <<"a","i","_","c","h","e","s","s","_","s","e","t">>
     ELSE ToLowerCase(replaced)

\* One file name for every piece
PieceFileNameWithoutType(pieceType) == "piece.jpeg"

\* `${piece.type.toLowerCase()}.jpeg`
PieceFileName(pieceType) ==
  CASE pieceType = "King"   -> "king.jpeg"
    [] pieceType = "Queen"  -> "queen.jpeg"
    [] pieceType = "Rook"   -> "rook.jpeg"
    [] pieceType = "Bishop" -> "bishop.jpeg"
    [] pieceType = "Knight" -> "knight.jpeg"
    [] pieceType = "Pawn"   -> "pawn.jpeg"

StyleGuideFileName == "art_direction_style_guide.txt"

\* imageFolder.file(name, content): a file of that name is replaced
AddFile(files, name, content) ==
  {f \in files : f.file # name} \cup {[file |-> name, content |-> content]}

\* The files of the pieces from position i of Object.values(chessSet) on
\* that hold an image, added to files
RECURSIVE AddImages(_, _, _)
AddImages(files, set, i) ==
  IF i > Len(PIECE_TYPES_ORDERED) THEN files
  ELSE LET piece == set[PIECE_TYPES_ORDERED[i]] IN
       AddImages(IF piece.imageUrl # Null
                 THEN AddFile(files, PieceFileName(piece.type), piece.imageUrl)
                 ELSE files,
                 set, i + 1)

\* The archive handleDownloadSet builds
Archive(t, set, guide) ==
  LET images == AddImages({}, set, 1) IN
  [ name |-> ThemeName(t),
    files |-> IF guide # Null /\ guide # EmptyText
              THEN AddFile(images, StyleGuideFileName, guide)
              ELSE images ]

\* hasGeneratedPieces
HasGeneratedPieces == \E type \in PieceType : chessSet[type].imageUrl # Null

\* isBusy
IsBusy == isGeneratingAll \/ isGeneratingStyleGuide

\* The staleness test without its comparison of the themes
NeedsStyleGuideIgnoringTheme(t, sgTheme, sg) == sg = Null \/ sg = EmptyText

\* The staleness test comparing the themes case-sensitively
NeedsStyleGuideCaseSensitive(t, sgTheme, sg) ==
  \/ Trim(t) # sgTheme
  \/ sg = Null
  \/ sg = EmptyText

\* theme.trim().toLowerCase() !== styleGuideTheme.toLowerCase() || !currentStyleGuide
NeedsStyleGuide(t, sgTheme, sg) ==
  \/ ToLowerCase(Trim(t)) # ToLowerCase(sgTheme)
  \/ sg = Null
  \/ sg = EmptyText

IsBatchJob(pieces) == Len(pieces) > 1

\* The theme stored with a new style guide, not trimmed
UntrimmedGuideTheme(t) == t

\* The argument of setStyleGuideTheme: theme.trim()
NewStyleGuideTheme(t) == Trim(t)

\* --------------------------------------------------- suspended handlers

\* The theme of no style-guide request (no typed theme holds this character).
NoSource == <<"none">>

\* prepareAndGenerate(piecesToGenerate), suspended at an await.  theme and
\* globalError are the values its closure captured; currentStyleGuide is its
\* local variable; idx is the position of its for loop.  guideFrom and failed are
\* history: the theme whose style-guide request produced currentStyleGuide, and
\* the errors of the pieces of this call that failed so far.
GenerateCall(pieces, phase, idx, t, error, guide, from, failed) ==
  [ op |-> "generate", phase |-> phase, pieces |-> pieces, idx |-> idx, theme |-> t,
    globalError |-> error, currentStyleGuide |-> guide, guideFrom |-> from,
    failed |-> failed, currentImageUrl |-> Null, editPrompt |-> "" ]

\* handleApplyEdit(editPrompt), suspended at the await of editChessPieceImage.
EditCall(pieceType, imageUrl, editPrompt) ==
  [ op |-> "edit", phase |-> "edit", pieces |-> <<pieceType>>, idx |-> 1, theme |-> <<>>,
    globalError |-> NoError, currentStyleGuide |-> Null, guideFrom |-> NoSource,
    failed |-> {}, currentImageUrl |-> imageUrl, editPrompt |-> editPrompt ]

InFlight == BagToSet(calls)

Suspend(bag, call) == bag (+) SetToBag({call})

Resume(bag, call) == bag (-) SetToBag({call})

\* The piece whose image request the call awaits.
PieceOf(call) == call.pieces[call.idx]

\* ------------------------------------------------------------ the loop

\* A loop that passes over the piece after the one that settled
LoopTargetSkipsNext(call, i) ==
  IF i > Len(call.pieces) THEN 0
  ELSE IF i > 1 /\ i < Len(call.pieces) THEN i + 1
  ELSE i

\* The for loop of prepareAndGenerate from position i on: the position of the
\* next piece whose image request is issued, 0 when the loop ends first.  The
\* loop reads the globalError its closure captured; handleGeneratePiece returns
\* at once when the API key is missing.
RECURSIVE LoopTarget(_, _)
LoopTarget(call, i) ==
  IF i > Len(call.pieces) THEN 0
  ELSE IF IsBatchJob(call.pieces) /\ StartsWithFailedToGenerate(call.globalError) THEN 0
  ELSE IF apiKeyMissing THEN LoopTarget(call, i + 1)
  ELSE i

\* A loop that never clears isGeneratingAll
RunLoopKeepsBatchFlag(call, i, error, loading, generatingAll, rest) ==
  LET j == LoopTarget(call, i) IN
  IF j = 0
  THEN /\ globalError' = error
       /\ loadingStates' = loading
       /\ isGeneratingAll' = generatingAll
       /\ calls' = rest
  ELSE /\ globalError' = NoError
       /\ loadingStates' = [loading EXCEPT ![call.pieces[j]] = TRUE]
       /\ isGeneratingAll' = generatingAll
       /\ calls' = Suspend(rest, [call EXCEPT !.phase = "image", !.idx = j])

\* Lines 105-114 from position i on, up to the next await or the end.  error,
\* loading and generatingAll are the values the setters called earlier in this
\* step have left; rest holds the other suspended handlers.
RunLoop(call, i, error, loading, generatingAll, rest) ==
  LET j == LoopTarget(call, i) IN
  IF j = 0
  THEN /\ globalError' = error
       /\ loadingStates' = loading
       /\ isGeneratingAll' = IF IsBatchJob(call.pieces) THEN FALSE ELSE generatingAll
       /\ calls' = rest
  ELSE \* handleGeneratePiece up to its await of generateChessPieceImage
       /\ globalError' = NoError
       /\ loadingStates' = [loading EXCEPT ![call.pieces[j]] = TRUE]
       /\ isGeneratingAll' = generatingAll
       /\ calls' = Suspend(rest, [call EXCEPT !.phase = "image", !.idx = j])

\* ------------------------------------------------------------- handlers

\* useEffect(() => {...}, [])
Mount ==
  /\ ~mounted
  /\ mounted' = TRUE
  /\ IF ~apiKey
     THEN apiKeyMissing' = TRUE /\ globalError' = ApiKeyMissingError
     ELSE UNCHANGED <<apiKeyMissing, globalError>>
  /\ UNCHANGED <<declined, downloads, cleared, theme, chessSet, loadingStates, isGeneratingAll, styleGuide,
                 styleGuideTheme, isGeneratingStyleGuide, editingPiece, isEditing,
                 apiKey, calls, guideSource, intents>>

\* A user intent: the page is mounted and the run has intents left.
Intent == mounted /\ intents > 0 /\ intents' = intents - 1

\* A generateBatch whose guard does not test the theme
prepareAndGenerateWithoutThemeTest(piecesToGenerate) ==
  IF apiKeyMissing
  THEN UNCHANGED <<declined, downloads, cleared, theme, chessSet, loadingStates, globalError, isGeneratingAll,
                   apiKeyMissing, styleGuide, styleGuideTheme, isGeneratingStyleGuide,
                   editingPiece, isEditing, apiKey, mounted, calls, guideSource>>
  ELSE /\ globalError' = NoError
       /\ isGeneratingStyleGuide' = TRUE
       /\ calls' = Suspend(calls, GenerateCall(piecesToGenerate, "styleGuide", 0, theme,
                                               globalError, styleGuide, NoSource, {}))
       /\ cleared' = FALSE
       /\ UNCHANGED <<declined, downloads, theme, chessSet, loadingStates, isGeneratingAll,
                      apiKeyMissing, styleGuide, styleGuideTheme, editingPiece, isEditing,
                      apiKey, mounted, guideSource>>

\* prepareAndGenerate(piecesToGenerate), up to its first await or its end
prepareAndGenerate(piecesToGenerate) ==
  IF apiKeyMissing \/ Trim(theme) = <<>>
  THEN /\ globalError' = IF Trim(theme) = <<>> THEN EnterThemeError ELSE globalError
       /\ UNCHANGED <<declined, downloads, cleared, theme, chessSet, loadingStates, isGeneratingAll, apiKeyMissing,
                      styleGuide, styleGuideTheme, isGeneratingStyleGuide, editingPiece,
                      isEditing, apiKey, mounted, calls, guideSource>>
  ELSE IF NeedsStyleGuide(theme, styleGuideTheme, styleGuide)
  THEN /\ globalError' = NoError
       /\ isGeneratingStyleGuide' = TRUE
       /\ calls' = Suspend(calls, GenerateCall(piecesToGenerate, "styleGuide", 0, theme,
                                               globalError, styleGuide, NoSource, {}))
       /\ cleared' = FALSE
       /\ UNCHANGED <<declined, downloads, theme, chessSet, loadingStates, isGeneratingAll, apiKeyMissing,
                      styleGuide, styleGuideTheme, editingPiece, isEditing, apiKey,
                      mounted, guideSource>>
  ELSE /\ RunLoop(GenerateCall(piecesToGenerate, "image", 0, theme, globalError,
                               styleGuide, guideSource, {}),
                  1, NoError, loadingStates,
                  IF IsBatchJob(piecesToGenerate) THEN TRUE ELSE isGeneratingAll, calls)
       /\ cleared' = FALSE
       /\ UNCHANGED <<declined, downloads, theme, chessSet, apiKeyMissing, styleGuide, styleGuideTheme,
                      isGeneratingStyleGuide, editingPiece, isEditing, apiKey, mounted,
                      guideSource>>

\* A Clear that leaves the per-piece loading flags as they are
handleClearSetKeepsLoading ==
  /\ chessSet' = initialChessSet
  /\ theme' = <<>>
  /\ globalError' = NoError
  /\ styleGuide' = Null
  /\ styleGuideTheme' = <<>>
  /\ isGeneratingAll' = FALSE
  /\ guideSource' = NoSource
  /\ cleared' = TRUE
  /\ UNCHANGED <<declined, downloads, loadingStates, apiKeyMissing, isGeneratingStyleGuide, editingPiece,
                 isEditing, apiKey, mounted, calls>>

\* handleClearSet
handleClearSet ==
  /\ chessSet' = initialChessSet
  /\ theme' = <<>>
  /\ globalError' = NoError
  /\ styleGuide' = Null
  /\ styleGuideTheme' = <<>>
  /\ loadingStates' = initialLoadingStates
  /\ isGeneratingAll' = FALSE
  /\ guideSource' = NoSource
  /\ cleared' = TRUE
  /\ UNCHANGED <<declined, downloads, apiKeyMissing, isGeneratingStyleGuide, editingPiece, isEditing, apiKey,
                 mounted, calls>>

\* handleDownloadSet
handleDownloadSet ==
  IF ~HasGeneratedPieces
  THEN /\ declined' = declined \cup {<<"download", editingPiece>>}
       /\ UNCHANGED <<downloads, cleared, theme, chessSet, loadingStates, globalError,
                      isGeneratingAll, apiKeyMissing, styleGuide, styleGuideTheme,
                      isGeneratingStyleGuide, editingPiece, isEditing, apiKey, mounted,
                      calls, guideSource>>
  ELSE /\ downloads' = Append(downloads, Archive(theme, chessSet, styleGuide))
       /\ UNCHANGED <<declined, cleared, theme, chessSet, loadingStates, globalError,
                      isGeneratingAll, apiKeyMissing, styleGuide, styleGuideTheme,
                      isGeneratingStyleGuide, editingPiece, isEditing, apiKey, mounted,
                      calls, guideSource>>

\* handleSelectExampleTheme
handleSelectExampleTheme(selectedTheme) ==
  /\ theme' = selectedTheme
  /\ chessSet' = initialChessSet
  /\ styleGuide' = Null
  /\ styleGuideTheme' = <<>>
  /\ globalError' = NoError
  /\ guideSource' = NoSource
  /\ UNCHANGED <<declined, downloads, cleared, loadingStates, isGeneratingAll, apiKeyMissing, isGeneratingStyleGuide,
                 editingPiece, isEditing, apiKey, mounted, calls>>

\* onChange of the theme input
handleThemeChange(value) ==
  /\ theme' = value
  /\ globalError' = IF globalError # NoError /\ ~IncludesApiKey(globalError)
                    THEN NoError ELSE globalError
  /\ UNCHANGED <<declined, downloads, cleared, chessSet, loadingStates, isGeneratingAll, apiKeyMissing, styleGuide,
                 styleGuideTheme, isGeneratingStyleGuide, editingPiece, isEditing, apiKey,
                 mounted, calls, guideSource>>

\* handleOpenEditModal
handleOpenEditModal(pieceType) ==
  /\ editingPiece' = IF chessSet[pieceType].imageUrl # Null THEN pieceType ELSE editingPiece
  /\ UNCHANGED <<declined, downloads, cleared, theme, chessSet, loadingStates, globalError, isGeneratingAll,
                 apiKeyMissing, styleGuide, styleGuideTheme, isGeneratingStyleGuide,
                 isEditing, apiKey, mounted, calls, guideSource>>

\* A close that does not look at isEditing
handleCloseEditModalAlways ==
  /\ editingPiece' = Null
  /\ declined' = IF isEditing THEN declined \cup {<<"close", editingPiece>>} ELSE declined
  /\ UNCHANGED <<downloads, cleared, theme, chessSet, loadingStates, globalError, isGeneratingAll,
                 apiKeyMissing, styleGuide, styleGuideTheme, isGeneratingStyleGuide,
                 isEditing, apiKey, mounted, calls, guideSource>>

\* handleCloseEditModal
handleCloseEditModal ==
  /\ editingPiece' = IF isEditing THEN editingPiece ELSE Null
  /\ declined' = IF isEditing THEN declined \cup {<<"close", editingPiece>>} ELSE declined
  /\ UNCHANGED <<downloads, cleared, theme, chessSet, loadingStates, globalError, isGeneratingAll,
                 apiKeyMissing, styleGuide, styleGuideTheme, isGeneratingStyleGuide,
                 isEditing, apiKey, mounted, calls, guideSource>>

\* An applyEdit that does not test the image of its target
handleApplyEditWithoutImageTest(editPrompt) ==
  IF editingPiece = Null \/ apiKeyMissing
  THEN /\ declined' = declined \cup {<<"applyEdit", editingPiece>>}
       /\ UNCHANGED <<downloads, cleared, theme, chessSet, loadingStates, globalError, isGeneratingAll,
                   apiKeyMissing, styleGuide, styleGuideTheme, isGeneratingStyleGuide,
                   editingPiece, isEditing, apiKey, mounted, calls, guideSource>>
  ELSE /\ globalError' = NoError
       /\ isEditing' = TRUE
       /\ calls' = Suspend(calls, EditCall(editingPiece, chessSet[editingPiece].imageUrl,
                                           editPrompt))
       /\ UNCHANGED <<declined, downloads, cleared, theme, chessSet, loadingStates, isGeneratingAll, apiKeyMissing,
                      styleGuide, styleGuideTheme, isGeneratingStyleGuide, editingPiece,
                      apiKey, mounted, guideSource>>

\* handleApplyEdit(editPrompt), up to its await of editChessPieceImage
handleApplyEdit(editPrompt) ==
  IF editingPiece = Null \/ chessSet[editingPiece].imageUrl = Null \/ apiKeyMissing
  THEN /\ declined' = declined \cup {<<"applyEdit", editingPiece>>}
       /\ UNCHANGED <<downloads, cleared, theme, chessSet, loadingStates, globalError, isGeneratingAll,
                   apiKeyMissing, styleGuide, styleGuideTheme, isGeneratingStyleGuide,
                   editingPiece, isEditing, apiKey, mounted, calls, guideSource>>
  ELSE /\ globalError' = NoError
       /\ isEditing' = TRUE
       /\ calls' = Suspend(calls, EditCall(editingPiece, chessSet[editingPiece].imageUrl,
                                           editPrompt))
       /\ UNCHANGED <<declined, downloads, cleared, theme, chessSet, loadingStates, isGeneratingAll, apiKeyMissing,
                      styleGuide, styleGuideTheme, isGeneratingStyleGuide, editingPiece,
                      apiKey, mounted, guideSource>>

\* ---------------------------------------------------------- settlements

\* setChessSet of the try branch of handleGeneratePiece
PieceGenerated(set, pieceType, imageUrl, fullPrompt) ==
  [set EXCEPT ![pieceType] =
     [type |-> pieceType, imageUrl |-> imageUrl, promptUsed |-> fullPrompt]]

\* A failure that rolls the whole set back
PieceFailedResetsSet(set, pieceType) == initialChessSet

\* A failure that keeps the image the piece had
PieceFailedKeepsImage(set, pieceType) == set

\* setChessSet of the catch branch of handleGeneratePiece
PieceFailed(set, pieceType) ==
  [set EXCEPT ![pieceType] = [@ EXCEPT !.imageUrl = Null]]

\* An edit that rolls the other pieces back
PieceEditedResetsOthers(set, pieceType, newImageUrl, editPrompt) ==
  [initialChessSet EXCEPT ![pieceType] =
     [@ EXCEPT !.imageUrl = newImageUrl, !.promptUsed = EditedPrompt(editPrompt)]]

\* setChessSet of the try branch of handleApplyEdit
PieceEdited(set, pieceType, newImageUrl, editPrompt) ==
  [set EXCEPT ![pieceType] =
     [@ EXCEPT !.imageUrl = newImageUrl, !.promptUsed = EditedPrompt(editPrompt)]]

\* generateStyleGuide resolves: prepareAndGenerate from line 86 on
StyleGuideResolves(call, newStyleGuide) ==
  /\ call \in InFlight
  /\ call.phase = "styleGuide"
  /\ styleGuide' = newStyleGuide
  /\ styleGuideTheme' = NewStyleGuideTheme(call.theme)
  /\ guideSource' = call.theme
  /\ isGeneratingStyleGuide' = FALSE
  /\ IF newStyleGuide = EmptyText
     THEN /\ globalError' = NoArtDirectionError
          /\ calls' = Resume(calls, call)
          /\ UNCHANGED <<loadingStates, isGeneratingAll>>
     ELSE RunLoop([call EXCEPT !.currentStyleGuide = newStyleGuide,
                               !.guideFrom = call.theme],
                  1, globalError, loadingStates,
                  IF IsBatchJob(call.pieces) THEN TRUE ELSE isGeneratingAll,
                  Resume(calls, call))
  /\ UNCHANGED <<declined, downloads, cleared, theme, chessSet, apiKeyMissing, editingPiece, isEditing, apiKey,
                 mounted, intents>>

\* generateStyleGuide rejects: the catch and finally of lines 89-97
StyleGuideRejects(call) ==
  /\ call \in InFlight
  /\ call.phase = "styleGuide"
  /\ globalError' = ArtDirectionError(StyleGuideErrorMessage)
  /\ isGeneratingStyleGuide' = FALSE
  /\ calls' = Resume(calls, call)
  /\ UNCHANGED <<declined, downloads, cleared, theme, chessSet, loadingStates, isGeneratingAll, apiKeyMissing,
                 styleGuide, styleGuideTheme, editingPiece, isEditing, apiKey, mounted,
                 guideSource, intents>>

\* generateChessPieceImage resolves: handleGeneratePiece from line 56 on, then
\* the loop of prepareAndGenerate
ImageResolves(call, imageUrl) ==
  /\ call \in InFlight
  /\ call.phase = "image"
  /\ chessSet' = PieceGenerated(chessSet, PieceOf(call), imageUrl,
                                FullPrompt(PieceOf(call), call.theme,
                                           call.currentStyleGuide))
  /\ RunLoop(call, call.idx + 1, globalError,
             [loadingStates EXCEPT ![PieceOf(call)] = FALSE], isGeneratingAll,
             Resume(calls, call))
  /\ UNCHANGED <<declined, downloads, cleared, theme, apiKeyMissing, styleGuide, styleGuideTheme,
                 isGeneratingStyleGuide, editingPiece, isEditing, apiKey, mounted,
                 guideSource, intents>>

\* generateChessPieceImage rejects: the catch and finally of handleGeneratePiece,
\* then the loop of prepareAndGenerate
ImageRejects(call, message) ==
  /\ call \in InFlight
  /\ call.phase = "image"
  /\ chessSet' = PieceFailed(chessSet, PieceOf(call))
  /\ RunLoop([call EXCEPT !.failed = @ \cup {GenerateError(PieceOf(call), message)}],
             call.idx + 1, GenerateError(PieceOf(call), message),
             [loadingStates EXCEPT ![PieceOf(call)] = FALSE], isGeneratingAll,
             Resume(calls, call))
  /\ UNCHANGED <<declined, downloads, cleared, theme, apiKeyMissing, styleGuide, styleGuideTheme,
                 isGeneratingStyleGuide, editingPiece, isEditing, apiKey, mounted,
                 guideSource, intents>>

\* A successful edit whose handleCloseEditModal reads the isEditing of the
\* moment it is called, which is true
EditResolvesReadsCurrentFlag(call, newImageUrl) ==
  /\ call \in InFlight
  /\ call.phase = "edit"
  /\ chessSet' = PieceEdited(chessSet, PieceOf(call), newImageUrl, call.editPrompt)
  /\ editingPiece' = IF isEditing THEN editingPiece ELSE Null
  /\ isEditing' = FALSE
  /\ calls' = Resume(calls, call)
  /\ UNCHANGED <<declined, downloads, cleared, theme, loadingStates, globalError, isGeneratingAll, apiKeyMissing,
                 styleGuide, styleGuideTheme, isGeneratingStyleGuide, apiKey, mounted,
                 guideSource, intents>>

\* editChessPieceImage resolves: handleApplyEdit from line 194 on.  The
\* handleCloseEditModal it calls is the one of its own render, where isEditing
\* was false.
EditResolves(call, newImageUrl) ==
  /\ call \in InFlight
  /\ call.phase = "edit"
  /\ chessSet' = PieceEdited(chessSet, PieceOf(call), newImageUrl, call.editPrompt)
  /\ editingPiece' = Null
  /\ isEditing' = FALSE
  /\ calls' = Resume(calls, call)
  /\ UNCHANGED <<declined, downloads, cleared, theme, loadingStates, globalError, isGeneratingAll, apiKeyMissing,
                 styleGuide, styleGuideTheme, isGeneratingStyleGuide, apiKey, mounted,
                 guideSource, intents>>

\* A failed edit that closes the edit session
EditRejectsClosesSession(call, message) ==
  /\ call \in InFlight
  /\ call.phase = "edit"
  /\ globalError' = EditError(PieceOf(call), message)
  /\ editingPiece' = Null
  /\ isEditing' = FALSE
  /\ calls' = Resume(calls, call)
  /\ UNCHANGED <<declined, downloads, cleared, theme, chessSet, loadingStates, isGeneratingAll, apiKeyMissing,
                 styleGuide, styleGuideTheme, isGeneratingStyleGuide, apiKey, mounted,
                 guideSource, intents>>

\* editChessPieceImage rejects: the catch and finally of handleApplyEdit
EditRejects(call, message) ==
  /\ call \in InFlight
  /\ call.phase = "edit"
  /\ globalError' = EditError(PieceOf(call), message)
  /\ isEditing' = FALSE
  /\ calls' = Resume(calls, call)
  /\ UNCHANGED <<declined, downloads, cleared, theme, chessSet, loadingStates, isGeneratingAll, apiKeyMissing,
                 styleGuide, styleGuideTheme, isGeneratingStyleGuide, editingPiece,
                 apiKey, mounted, guideSource, intents>>

\* ------------------------------------------------------- the user's intents

\* isLoading of a piece card
CardLoading(pieceType) ==
  loadingStates[pieceType] \/ (IsBusy /\ chessSet[pieceType].imageUrl = Null)

\* The edit modal is rendered
ModalOpen == editingPiece # Null /\ chessSet[editingPiece].imageUrl # Null

\* The theme input: disabled={apiKeyMissing || isBusy}
TypeTheme(value) ==
  /\ Intent
  /\ ~(apiKeyMissing \/ IsBusy)
  /\ value # theme
  /\ handleThemeChange(value)

\* The example themes: rendered when !isBusy && !hasGeneratedPieces
SelectExampleTheme(selectedTheme) ==
  /\ Intent
  /\ ~IsBusy /\ ~HasGeneratedPieces
  /\ handleSelectExampleTheme(selectedTheme)

\* The Generate button of a piece card: disabled={isLoading || !canGenerate}
ClickGenerate(pieceType) ==
  /\ Intent
  /\ ~(CardLoading(pieceType) \/ Trim(theme) = <<>>)
  /\ prepareAndGenerate(<<pieceType>>)

\* Generate Full Set: disabled={apiKeyMissing || isBusy || !theme.trim()}
ClickGenerateAll ==
  /\ Intent
  /\ ~(apiKeyMissing \/ IsBusy \/ Trim(theme) = <<>>)
  /\ prepareAndGenerate(PIECE_TYPES_ORDERED)

\* Clear Set & Theme: disabled={isBusy}
ClickClear ==
  /\ Intent
  /\ ~IsBusy
  /\ handleClearSet

\* The edit button of a piece card: rendered when !isLoading && imageUrl
ClickEdit(pieceType) ==
  /\ Intent
  /\ ~CardLoading(pieceType) /\ chessSet[pieceType].imageUrl # Null
  /\ handleOpenEditModal(pieceType)

\* A click on the backdrop of the edit modal
ClickCloseEdit ==
  /\ Intent
  /\ ModalOpen
  /\ handleCloseEditModal

\* The form of the edit modal: handleSubmit
SubmitEdit(editPrompt) ==
  /\ Intent
  /\ ModalOpen
  /\ ~isEditing
  /\ handleApplyEdit(editPrompt)

\* ------------------------------------------------------ the specification

Init ==
  /\ theme = <<>>
  /\ chessSet = initialChessSet
  /\ loadingStates = initialLoadingStates
  /\ globalError = NoError
  /\ isGeneratingAll = FALSE
  /\ apiKeyMissing = FALSE
  /\ styleGuide = Null
  /\ styleGuideTheme = <<>>
  /\ isGeneratingStyleGuide = FALSE
  /\ editingPiece = Null
  /\ isEditing = FALSE
  /\ apiKey \in BOOLEAN
  /\ mounted = FALSE
  /\ calls = EmptyBag
  /\ guideSource = NoSource
  /\ declined = {}
  /\ downloads = <<>>
  /\ cleared = FALSE
  /\ intents = MaxIntents

\* The settlements of the remote calls in flight
StyleGuideResolved ==
  \E call \in InFlight, newStyleGuide \in GuideTexts \cup {EmptyText} :
    StyleGuideResolves(call, newStyleGuide)

StyleGuideRejected == \E call \in InFlight : StyleGuideRejects(call)

ImageResolved == \E call \in InFlight, imageUrl \in Images : ImageResolves(call, imageUrl)

ImageRejected ==
  \E call \in InFlight, message \in ImageErrorMessages : ImageRejects(call, message)

EditResolved ==
  \E call \in InFlight, newImageUrl \in EditedImages : EditResolves(call, newImageUrl)

EditRejected ==
  \E call \in InFlight, message \in EditErrorMessages : EditRejects(call, message)

Settlement ==
  \/ StyleGuideResolved
  \/ StyleGuideRejected
  \/ ImageResolved
  \/ ImageRejected
  \/ EditResolved
  \/ EditRejected

Next ==
  \/ Mount
  \/ \E value \in TypedThemes : TypeTheme(value)
  \/ \E selectedTheme \in EXAMPLE_THEMES : SelectExampleTheme(selectedTheme)
  \/ \E pieceType \in ClickedCards : ClickGenerate(pieceType)
  \/ ClickGenerateAll
  \/ ClickClear
  \/ \E pieceType \in ClickedCards : ClickEdit(pieceType)
  \/ ClickCloseEdit
  \/ \E editPrompt \in EditPrompts : SubmitEdit(editPrompt)
  \/ Settlement

Spec == Init /\ [][Next]_vars

\* Longer runs of a user who types one of two themes and clicks the Generate
\* button of one card and Generate Full Set.
DeepThemes == {<<"a">>, <<"b">>}

InitDeep ==
  /\ theme = <<>>
  /\ chessSet = initialChessSet
  /\ loadingStates = initialLoadingStates
  /\ globalError = NoError
  /\ isGeneratingAll = FALSE
  /\ apiKeyMissing = FALSE
  /\ styleGuide = Null
  /\ styleGuideTheme = <<>>
  /\ isGeneratingStyleGuide = FALSE
  /\ editingPiece = Null
  /\ isEditing = FALSE
  /\ apiKey = TRUE
  /\ mounted = FALSE
  /\ calls = EmptyBag
  /\ guideSource = NoSource
  /\ declined = {}
  /\ downloads = <<>>
  /\ cleared = FALSE
  /\ intents = MaxDeepIntents

NextDeep ==
  \/ Mount
  \/ \E value \in DeepThemes : TypeTheme(value)
  \/ ClickGenerate("King")
  \/ ClickGenerateAll
  \/ StyleGuideResolved
  \/ StyleGuideRejected
  \/ ImageResolved
  \/ ImageRejected

SpecDeep == InitDeep /\ [][NextDeep]_vars

\* Longer runs of a user who types one theme, generates the King and the Rook
\* and edits them.
EditThemes == {<<"a">>}

InitEdit ==
  /\ theme = <<>>
  /\ chessSet = initialChessSet
  /\ loadingStates = initialLoadingStates
  /\ globalError = NoError
  /\ isGeneratingAll = FALSE
  /\ apiKeyMissing = FALSE
  /\ styleGuide = Null
  /\ styleGuideTheme = <<>>
  /\ isGeneratingStyleGuide = FALSE
  /\ editingPiece = Null
  /\ isEditing = FALSE
  /\ apiKey = TRUE
  /\ mounted = FALSE
  /\ calls = EmptyBag
  /\ guideSource = NoSource
  /\ declined = {}
  /\ downloads = <<>>
  /\ cleared = FALSE
  /\ intents = MaxEditIntents

NextEdit ==
  \/ Mount
  \/ \E value \in EditThemes : TypeTheme(value)
  \/ \E pieceType \in ClickedCards : ClickGenerate(pieceType)
  \/ \E pieceType \in ClickedCards : ClickEdit(pieceType)
  \/ ClickCloseEdit
  \/ \E editPrompt \in EditPrompts : SubmitEdit(editPrompt)
  \/ Settlement

SpecEdit == InitEdit /\ [][NextEdit]_vars

\* The handlers called directly, whatever the page shows: the contract of each
\* operation, outside the gating of the buttons.
DirectThemes == {<<>>, <<"a">>}
DirectPieces == {"King"}

InitDirect ==
  /\ theme = <<>>
  /\ chessSet = initialChessSet
  /\ loadingStates = initialLoadingStates
  /\ globalError = NoError
  /\ isGeneratingAll = FALSE
  /\ apiKeyMissing = FALSE
  /\ styleGuide = Null
  /\ styleGuideTheme = <<>>
  /\ isGeneratingStyleGuide = FALSE
  /\ editingPiece = Null
  /\ isEditing = FALSE
  /\ apiKey \in BOOLEAN
  /\ mounted = FALSE
  /\ calls = EmptyBag
  /\ guideSource = NoSource
  /\ declined = {}
  /\ downloads = <<>>
  /\ cleared = FALSE
  /\ intents = MaxDirectIntents

NextDirect ==
  \/ Mount
  \/ \E value \in DirectThemes : Intent /\ handleThemeChange(value)
  \/ \E pieceType \in DirectPieces : Intent /\ prepareAndGenerate(<<pieceType>>)
  \/ Intent /\ handleClearSet
  \/ \E pieceType \in DirectPieces : Intent /\ handleOpenEditModal(pieceType)
  \/ Intent /\ handleCloseEditModal
  \/ \E editPrompt \in EditPrompts : Intent /\ handleApplyEdit(editPrompt)
  \/ Settlement

SpecDirect == InitDirect /\ [][NextDirect]_vars

\* The export, called on every set of pieces the page can hold: each kind
\* with or without an image, the style guide absent, empty or present.
ExportThemes == {<<>>, <<"A", " ", "b">>}

ExportSets ==
  { [type \in PieceType |->
       IF type \in present
       THEN [type |-> type, imageUrl |-> "data:image/jpeg;base64,generated",
             promptUsed |-> FullPrompt(type, <<"a">>, "guide1")]
       ELSE [type |-> type, imageUrl |-> Null, promptUsed |-> Undefined]]
    : present \in SUBSET PieceType }

InitExport ==
  /\ theme \in ExportThemes
  /\ chessSet \in ExportSets
  /\ loadingStates = initialLoadingStates
  /\ globalError = NoError
  /\ isGeneratingAll = FALSE
  /\ apiKeyMissing = FALSE
  /\ styleGuide \in {Null, EmptyText} \cup GuideTexts
  /\ styleGuideTheme = <<>>
  /\ isGeneratingStyleGuide = FALSE
  /\ editingPiece = Null
  /\ isEditing = FALSE
  /\ apiKey = TRUE
  /\ mounted = TRUE
  /\ calls = EmptyBag
  /\ guideSource = NoSource
  /\ intents = MaxExportIntents
  /\ declined = {}
  /\ downloads = <<>>
  /\ cleared = FALSE

NextExport == Intent /\ handleDownloadSet

SpecExport == InitExport /\ [][NextExport]_vars

\* ------------------------------------------------------------ properties

\* The piece lists generateBatch is called with
BatchArguments == {<<pieceType>> : pieceType \in PieceType} \cup {PIECE_TYPES_ORDERED}

\* The suspended handlers a step has added
Started(call) == CopiesIn(call, calls') > CopiesIn(call, calls)

\* The suspended handlers a step has resumed
Resumed(call) == CopiesIn(call, calls') < CopiesIn(call, calls)

\* Two suspended states of one call of prepareAndGenerate
SameBatch(c, d) ==
  /\ c.op = "generate" /\ d.op = "generate"
  /\ c.pieces = d.pieces
  /\ c.theme = d.theme
  /\ c.globalError = d.globalError

\* A theme as the staleness rule compares it
Normalized(t) == ToLowerCase(Trim(t))

\* A generation prompt (not an edit marker, not undefined)
IsGenerationPrompt(prompt) ==
  /\ Len(prompt) = 3
  /\ \E pieceType \in PieceType : prompt[1] = DEFAULT_PIECE_DESCRIPTIONS[pieceType]

\* C1: in a multi-piece generateBatch, once the image request of one piece has
\* failed, no image request of that batch is in flight for a later kind.
C1_NoRequestAfterFailure ==
  \A call \in InFlight :
    (IsBatchJob(call.pieces) /\ call.phase = "image") => call.failed = {}

\* C2: in the step that finishes a multi-piece generateBatch one of whose pieces
\* failed, globalError is left holding "Failed to generate <kind>: <message>"
\* of a failed piece of that batch.
C2_FailureMessageKept ==
  [][ \A call \in InFlight :
        (IsBatchJob(call.pieces) /\ call.phase = "image"
         /\ LoopTarget(call, call.idx + 1) = 0)
        => /\ \A imageUrl \in Images :
                (ImageResolves(call, imageUrl) /\ call.failed # {})
                => globalError' \in call.failed
           /\ \A message \in ImageErrorMessages :
                ImageRejects(call, message)
                => globalError' \in
                     call.failed \cup {GenerateError(PieceOf(call), message)} ]_vars

\* C3: the style guide of every image request in flight is a text that a
\* successful style-guide request produced for the theme of that request, the
\* two themes compared after trim and lower-casing; it is never absent or empty.
C3_ImageGatedOnGuide ==
  \A call \in InFlight :
    call.phase = "image"
    => /\ call.currentStyleGuide \in GuideTexts
       /\ call.guideFrom # NoSource
       /\ Normalized(call.guideFrom) = Normalized(call.theme)

\* An image request is in flight whose guide was produced for the theme typed
\* with white space around it and is used under another spelling of that theme.
C3_Witness ==
  \E call \in InFlight :
    /\ call.phase = "image"
    /\ call.guideFrom = <<" ", "a">>
    /\ call.theme # call.guideFrom

\* The stored style guide is present and not stale for the current theme.
StoredGuideFresh ==
  /\ styleGuide # Null /\ styleGuide # EmptyText
  /\ ToLowerCase(styleGuideTheme) = ToLowerCase(Trim(theme))

\* C4: a generateBatch started while the stored style guide is not stale for
\* the current theme issues no style-guide request, and the image request it
\* issues uses the stored guide.
C4_FreshGuideReused ==
  [][ \A pieces \in BatchArguments :
        (StoredGuideFresh /\ Intent /\ prepareAndGenerate(pieces))
        => \A call \in BagToSet(calls') :
             Started(call)
             => call.phase = "image" /\ call.currentStyleGuide = styleGuide ]_vars

\* A second generateBatch runs on the guide of an earlier one whose theme was
\* spelled in another case: one piece holds an image generated under the first
\* spelling while an image request under the second is in flight, both with
\* the stored guide.
C4_Witness ==
  \E call \in InFlight, pieceType \in PieceType :
    /\ call.phase = "image"
    /\ call.currentStyleGuide = styleGuide
    /\ chessSet[pieceType].imageUrl # Null
    /\ chessSet[pieceType].promptUsed =
         FullPrompt(pieceType, guideSource, styleGuide)
    /\ guideSource # call.theme
    /\ Trim(guideSource) # Trim(call.theme)

\* C5: a generateBatch that passes its guard under a theme that differs, after
\* trim and lower-casing, from the theme of the stored guide issues a
\* style-guide request for the current theme; when a style-guide request
\* succeeds, the stored guide is the new text, styleGuideTheme is the trimmed
\* theme of the request and the image request the call goes on to issue uses
\* the new text; and a generated piece's prompt embeds the guide of its call.
C5_NewThemeNewGuide ==
  [][ /\ \A pieces \in BatchArguments :
           ( /\ ~apiKeyMissing /\ Trim(theme) # <<>>
             /\ ToLowerCase(styleGuideTheme) # ToLowerCase(Trim(theme))
             /\ Intent /\ prepareAndGenerate(pieces) )
           => \E call \in BagToSet(calls') :
                /\ Started(call)
                /\ call.phase = "styleGuide" /\ call.theme = theme
                /\ call.pieces = pieces
      /\ \A call \in InFlight, text \in GuideTexts \cup {EmptyText} :
           StyleGuideResolves(call, text)
           => /\ styleGuide' = text
              /\ styleGuideTheme' = Trim(call.theme)
              /\ \A next \in BagToSet(calls') :
                   (Started(next) /\ SameBatch(call, next))
                   => next.phase = "image" /\ next.currentStyleGuide = text
      /\ \A call \in InFlight, imageUrl \in Images :
           ImageResolves(call, imageUrl)
           => chessSet'[PieceOf(call)].promptUsed =
                FullPrompt(PieceOf(call), call.theme, call.currentStyleGuide) ]_vars

\* A piece generated under one theme is kept while an image request is in flight
\* under a different theme, with the guide stored for that second theme.
C5_Witness ==
  \E call \in InFlight, pieceType \in PieceType :
    /\ call.phase = "image"
    /\ call.currentStyleGuide = styleGuide
    /\ styleGuideTheme = Trim(call.theme)
    /\ chessSet[pieceType].imageUrl # Null
    /\ IsGenerationPrompt(chessSet[pieceType].promptUsed)
    /\ Normalized(chessSet[pieceType].promptUsed[3]) # Normalized(call.theme)

\* The catalog order of the six kinds
CatalogOrder == <<"King", "Queen", "Rook", "Bishop", "Knight", "Pawn">>

\* C7: the image request a multi-piece generateBatch issues at its n-th
\* position is for the n-th kind of the catalog; the first one is issued when
\* the batch starts or its style-guide request resolves, and each later one
\* only in the step in which the request for the preceding kind settles.
C7_CatalogOrderSequential ==
  [][ \A next \in BagToSet(calls') :
        (Started(next) /\ IsBatchJob(next.pieces) /\ next.phase = "image")
        => /\ next.idx \in 1..Len(CatalogOrder)
           /\ PieceOf(next) = CatalogOrder[next.idx]
           /\ \/ /\ next.idx = 1
                 /\ \/ intents' # intents
                    \/ \E call \in InFlight :
                         /\ Resumed(call) /\ SameBatch(call, next)
                         /\ call.phase = "styleGuide"
              \/ \E call \in InFlight :
                   /\ Resumed(call) /\ SameBatch(call, next)
                   /\ call.phase = "image"
                   /\ call.idx + 1 = next.idx
                   /\ call.currentStyleGuide = next.currentStyleGuide ]_vars

\* The request for the last kind of a full set is in flight after the five
\* kinds before it have been generated.
C7_Witness ==
  \E call \in InFlight :
    /\ IsBatchJob(call.pieces) /\ call.phase = "image"
    /\ PieceOf(call) = "Pawn"
    /\ call.failed = {}
    /\ \A i \in 1..5 : chessSet[CatalogOrder[i]].imageUrl # Null

\* C8: the failure of the image request of one kind changes the record of no
\* other kind.
C8_FailureLeavesOthers ==
  [][ \A call \in InFlight, message \in ImageErrorMessages :
        ImageRejects(call, message)
        => \A pieceType \in PieceType \ {PieceOf(call)} :
             chessSet'[pieceType] = chessSet[pieceType] ]_vars

\* The third piece of a full set has failed and the two before it hold their
\* image and the prompt of this batch.
C8_Witness ==
  \E call \in InFlight :
    /\ IsBatchJob(call.pieces) /\ call.phase = "image"
    /\ call.failed = {GenerateError("Rook", m) : m \in ImageErrorMessages}
    /\ \A pieceType \in {"King", "Queen"} :
         /\ chessSet[pieceType].imageUrl \in Images
         /\ chessSet[pieceType].promptUsed =
              FullPrompt(pieceType, call.theme, call.currentStyleGuide)

\* C9: the failure of the image request of a kind leaves the image of that kind
\* absent.
C9_FailureClearsImage ==
  [][ \A call \in InFlight, message \in ImageErrorMessages :
        ImageRejects(call, message)
        => chessSet'[PieceOf(call)].imageUrl = Null ]_vars

\* A kind that had an image has lost it: its record still holds the prompt of
\* that image, no request for it is in flight, and globalError tells of its
\* failure.
C9_Witness ==
  \E pieceType \in PieceType, message \in ImageErrorMessages :
    /\ chessSet[pieceType].imageUrl = Null
    /\ IsGenerationPrompt(chessSet[pieceType].promptUsed)
    /\ globalError = GenerateError(pieceType, message)

\* C10: no record holds a prompt without an image.
C10_NoPromptWithoutImage ==
  \A pieceType \in PieceType :
    chessSet[pieceType].imageUrl = Null => chessSet[pieceType].promptUsed = Undefined

\* C6: when a style-guide request fails, its batch issues no image request, the
\* stored style guide, its theme and every piece record are unchanged,
\* globalError is "Failed to establish art direction: <message>", and
\* isGeneratingStyleGuide and isGeneratingAll are false.
C6_GuideFailureAborts ==
  [][ \A call \in InFlight :
        StyleGuideRejects(call)
        => /\ \A next \in BagToSet(calls') : ~Started(next)
           /\ styleGuide' = styleGuide
           /\ styleGuideTheme' = styleGuideTheme
           /\ chessSet' = chessSet
           /\ globalError' = ArtDirectionError(StyleGuideErrorMessage)
           /\ isGeneratingStyleGuide' = FALSE
           /\ isGeneratingAll' = FALSE ]_vars

\* C11: the step of Clear Set & Theme leaves all six records without image and
\* without prompt, the theme empty, the style guide and its theme absent,
\* globalError null, and the six per-piece loading flags, isGeneratingAll and
\* isGeneratingStyleGuide false.
C11_ClearResetsAll ==
  [][ ClickClear
      => /\ DOMAIN chessSet' = PieceType
         /\ \A pieceType \in PieceType :
              /\ chessSet'[pieceType].type = pieceType
              /\ chessSet'[pieceType].imageUrl = Null
              /\ chessSet'[pieceType].promptUsed = Undefined
              /\ loadingStates'[pieceType] = FALSE
         /\ theme' = <<>>
         /\ styleGuide' = Null
         /\ styleGuideTheme' = <<>>
         /\ globalError' = NoError
         /\ isGeneratingAll' = FALSE
         /\ isGeneratingStyleGuide' = FALSE ]_vars

\* The set was cleared while the image request of a single piece was in
\* flight: everything is as at the start, the request still pending.
C11_Witness ==
  /\ \E call \in InFlight : call.phase = "image"
  /\ \A pieceType \in PieceType :
       chessSet[pieceType].imageUrl = Null /\ ~loadingStates[pieceType]
  /\ theme = <<>>
  /\ styleGuide = Null
  /\ styleGuideTheme = <<>>
  /\ globalError = NoError
  /\ ~isGeneratingAll /\ ~isGeneratingStyleGuide

\* C12: in every state in which no remote call is in flight, the six per-piece
\* loading flags, isGeneratingAll, isGeneratingStyleGuide and isEditing are
\* false.
C12_FlagsNeverStuck ==
  calls = EmptyBag
  => /\ \A pieceType \in PieceType : loadingStates[pieceType] = FALSE
     /\ isGeneratingAll = FALSE
     /\ isGeneratingStyleGuide = FALSE
     /\ isEditing = FALSE

\* A full set has run to its end with a failure among its pieces: the Pawn
\* holds an image, the King does not, and nothing is in flight.
C12_Witness ==
  /\ calls = EmptyBag
  /\ chessSet["Pawn"].imageUrl # Null
  /\ chessSet["King"].imageUrl = Null
  /\ ~isGeneratingAll

\* C13: while the image request of a kind is in flight, the loading flag of
\* that kind is true.
C13_LoadingTracksRequest ==
  \A call \in InFlight : call.phase = "image" => loadingStates[PieceOf(call)]

\* C14: no user intent starts a generateBatch or an applyEdit (a handler that
\* goes on to a remote call) while isGeneratingAll, isGeneratingStyleGuide or
\* isEditing is true.
C14_NoStartWhileBusy ==
  [][ (intents' # intents /\ \E call \in BagToSet(calls') : Started(call))
      => ~(isGeneratingAll \/ isGeneratingStyleGuide \/ isEditing) ]_vars

\* C15: no two remote requests (image generation or edit) are in flight for
\* the same kind.
C15_NoOverlapOnKind ==
  \A c, d \in InFlight :
    ( /\ c.phase \in {"image", "edit"}
      /\ d.phase \in {"image", "edit"}
      /\ PieceOf(c) = PieceOf(d) )
    => (c = d /\ CopiesIn(c, calls) = 1)

\* C16: applyEdit called with no target piece, or with a target whose image
\* is absent, invokes no remote call and changes no state variable.
C16_EditWithoutImageRejected ==
  [][ \A editPrompt \in EditPrompts :
        ( /\ editingPiece = Null \/ chessSet[editingPiece].imageUrl = Null
          /\ Intent /\ handleApplyEdit(editPrompt) )
        => /\ calls' = calls
           /\ chessSet' = chessSet
           /\ globalError' = globalError
           /\ isEditing' = isEditing
           /\ editingPiece' = editingPiece
           /\ UNCHANGED <<theme, loadingStates, isGeneratingAll, apiKeyMissing,
                          styleGuide, styleGuideTheme, isGeneratingStyleGuide>> ]_vars

\* In a run that has the API key, applyEdit has returned at its guard once
\* with no target and once with a target that had lost its image (the set was
\* cleared or the piece failed after the session was opened).
C16_Witness ==
  /\ <<"applyEdit", Null>> \in declined
  /\ \E pieceType \in PieceType :
       /\ <<"applyEdit", pieceType>> \in declined
       /\ editingPiece = pieceType
       /\ chessSet[pieceType].imageUrl = Null
  /\ ~isEditing
  /\ ~apiKeyMissing

\* C17: a close intent that arrives while isEditing is true leaves the target
\* of the edit session as it is, and the target is set in every state in
\* which an edit request is in flight.
C17_CloseWhileEditingNoOp ==
  [][ /\ (isEditing /\ ClickCloseEdit)
          => (editingPiece' = editingPiece /\ editingPiece' # Null)
      /\ (\E call \in BagToSet(calls') : call.phase = "edit")
          => editingPiece' # Null ]_vars

\* A close intent has arrived while isEditing was true, the edit request is
\* still in flight and the session is open on its target.
C17_Witness ==
  \E call \in InFlight :
    /\ call.phase = "edit"
    /\ <<"close", PieceOf(call)>> \in declined
    /\ isEditing
    /\ editingPiece = PieceOf(call)

\* C18: when an edit request succeeds, the image of its target is the
\* returned image, its promptUsed is Edited: "<instruction>", the target of
\* the edit session is null and isEditing is false.
C18_EditSuccess ==
  [][ \A call \in InFlight, newImageUrl \in EditedImages :
        EditResolves(call, newImageUrl)
        => /\ chessSet'[PieceOf(call)].imageUrl = newImageUrl
           /\ chessSet'[PieceOf(call)].promptUsed =
                <<"Edited: \"", call.editPrompt, "\"">>
           /\ editingPiece' = Null
           /\ isEditing' = FALSE ]_vars

\* A piece holds an edited image and its marker, the session is closed and
\* nothing is in flight.
C18_Witness ==
  \E pieceType \in PieceType, editPrompt \in EditPrompts :
    /\ chessSet[pieceType].imageUrl \in EditedImages
    /\ chessSet[pieceType].promptUsed = <<"Edited: \"", editPrompt, "\"">>
    /\ editingPiece = Null
    /\ ~isEditing
    /\ calls = EmptyBag

\* C19: when an edit request fails, globalError is
\* "Failed to edit <kind>: <message>", the target of the edit session is
\* unchanged and set, the record of the target is unchanged, and isEditing is
\* false.
C19_EditFailure ==
  [][ \A call \in InFlight, message \in EditErrorMessages :
        EditRejects(call, message)
        => /\ globalError' = <<"Failed to edit ", PieceOf(call), ": ", message>>
           /\ editingPiece' = editingPiece
           /\ editingPiece' # Null
           /\ chessSet'[PieceOf(call)] = chessSet[PieceOf(call)]
           /\ isEditing' = FALSE ]_vars

\* The edit of a generated piece has failed: the session is open on it, it
\* holds the generated image and its prompt, and globalError tells of it.
C19_Witness ==
  \E pieceType \in PieceType, message \in EditErrorMessages :
    /\ globalError = <<"Failed to edit ", pieceType, ": ", message>>
    /\ editingPiece = pieceType
    /\ ~isEditing
    /\ chessSet[pieceType].imageUrl \in Images
    /\ IsGenerationPrompt(chessSet[pieceType].promptUsed)

\* What applyEdit on a target leaves alone
EditFrame(target) ==
  /\ \A pieceType \in PieceType \ {target} : chessSet'[pieceType] = chessSet[pieceType]
  /\ theme' = theme
  /\ styleGuide' = styleGuide
  /\ styleGuideTheme' = styleGuideTheme
  /\ loadingStates' = loadingStates
  /\ isGeneratingAll' = isGeneratingAll
  /\ isGeneratingStyleGuide' = isGeneratingStyleGuide

\* C20: the steps of applyEdit on a target (its start, its success, its
\* failure) leave the record of every other kind, the theme, the style guide
\* and its theme, and the generation loading flags unchanged.
C20_EditFrame ==
  [][ /\ \A editPrompt \in EditPrompts :
           SubmitEdit(editPrompt) => EditFrame(editingPiece)
      /\ \A call \in InFlight :
           ( \/ \E newImageUrl \in EditedImages : EditResolves(call, newImageUrl)
             \/ \E message \in EditErrorMessages : EditRejects(call, message) )
           => EditFrame(PieceOf(call)) ]_vars

\* The King has been edited while the Rook was being generated: the Rook
\* request is in flight with its loading flag, and the guide is stored.
C20_Witness ==
  /\ \E editPrompt \in EditPrompts :
       chessSet["King"].promptUsed = <<"Edited: \"", editPrompt, "\"">>
  /\ chessSet["King"].imageUrl \in EditedImages
  /\ \E call \in InFlight : call.phase = "image" /\ PieceOf(call) = "Rook"
  /\ loadingStates["Rook"]
  /\ styleGuide \in GuideTexts

\* C21: a generateBatch called while the API key is missing or the trimmed
\* theme is empty issues no remote request and changes no state variable
\* other than globalError; with the API key present and the trimmed theme
\* empty, globalError becomes "Please enter a theme first.".
C21_GuardFailsFast ==
  [][ \A pieces \in BatchArguments :
        ( /\ apiKeyMissing \/ Trim(theme) = <<>>
          /\ Intent /\ prepareAndGenerate(pieces) )
        => /\ calls' = calls
           /\ UNCHANGED <<theme, chessSet, loadingStates, isGeneratingAll, apiKeyMissing,
                          styleGuide, styleGuideTheme, isGeneratingStyleGuide,
                          editingPiece, isEditing>>
           /\ (~apiKeyMissing /\ Trim(theme) = <<>>)
                => globalError' = <<"Please enter a theme first.">> ]_vars

\* With the API key present, a generateBatch has been called on an empty
\* theme: nothing is in flight, nothing is loading, and globalError asks for
\* a theme.
C21_Witness ==
  /\ ~apiKeyMissing
  /\ mounted
  /\ globalError = <<"Please enter a theme first.">>
  /\ Trim(theme) = <<>>
  /\ calls = EmptyBag
  /\ ~isGeneratingStyleGuide /\ ~isGeneratingAll

\* C22: when the API key is missing, globalError holds the missing-key
\* message in every state after the mount effect has run.
C22_MissingKeyErrorPersists ==
  (mounted /\ ~apiKey)
  => globalError =
       <<"Gemini API Key is missing. Please ensure it's configured in your environment.">>

\* C24: a full-set generateBatch that passes its guard with a style guide
\* that is not stale, or whose style-guide request resolves with a text,
\* issues the image request of its first kind in that step.
C24_FirstRequestIssued ==
  [][ /\ ( /\ ~apiKeyMissing /\ Trim(theme) # <<>>
           /\ StoredGuideFresh
           /\ Intent /\ prepareAndGenerate(CatalogOrder) )
         => \E next \in BagToSet(calls') :
              /\ Started(next) /\ next.pieces = CatalogOrder
              /\ next.phase = "image" /\ next.idx = 1
      /\ \A call \in InFlight, text \in GuideTexts :
           (call.pieces = CatalogOrder /\ StyleGuideResolves(call, text))
           => \E next \in BagToSet(calls') :
                /\ Started(next) /\ next.pieces = CatalogOrder
                /\ next.phase = "image" /\ next.idx = 1 ]_vars

\* C26: at most one style-guide request is in flight, and
\* isGeneratingStyleGuide is true while one is.
C26_OneStyleGuideRequest ==
  \A call \in InFlight :
    call.phase = "styleGuide"
    => /\ CopiesIn(call, calls) = 1
       /\ \A other \in InFlight : other.phase = "styleGuide" => other = call
       /\ isGeneratingStyleGuide

\* C27: the target of the edit session, when set, is a piece that holds an
\* image.
C27_EditTargetHasImage ==
  editingPiece # Null => chessSet[editingPiece].imageUrl # Null

\* C28: in the step in which a full-set generateBatch ends after six
\* successful generations, every record whose promptUsed is a generation
\* prompt embeds the style guide of the batch, which is the stored style guide,
\* stored for the theme of the batch.
C28_OneGuidePerSet ==
  [][ \A call \in InFlight, imageUrl \in Images :
        ( /\ call.pieces = CatalogOrder
          /\ call.idx = Len(CatalogOrder)
          /\ call.failed = {}
          /\ ImageResolves(call, imageUrl) )
        => /\ \A pieceType \in PieceType :
                IsGenerationPrompt(chessSet'[pieceType].promptUsed)
                => chessSet'[pieceType].promptUsed[2] = call.currentStyleGuide
           /\ styleGuide' = call.currentStyleGuide
           /\ Normalized(styleGuideTheme') = Normalized(call.theme) ]_vars

\* The name of the archive entry of a kind
ExpectedFileName ==
  [ King |-> "king.jpeg", Queen |-> "queen.jpeg", Rook |-> "rook.jpeg",
    Bishop |-> "bishop.jpeg", Knight |-> "knight.jpeg", Pawn |-> "pawn.jpeg" ]

\* The kinds that hold an image
WithImage == {pieceType \in PieceType : chessSet[pieceType].imageUrl # Null}

\* C23: a call of exportSet produces no archive when no piece holds an image;
\* otherwise it produces one archive that holds exactly one entry for each
\* kind with an image (that image, under the name of the kind), no entry for
\* a kind without image, and the style-guide text entry if and only if a
\* style guide is present.
C23_ExportEntries ==
  [][ (Intent /\ handleDownloadSet)
      => IF WithImage = {}
         THEN downloads' = downloads
         ELSE /\ Len(downloads') = Len(downloads) + 1
              /\ SubSeq(downloads', 1, Len(downloads)) = downloads
              /\ LET files == downloads'[Len(downloads')].files
                      guideEntries == {f \in files : f.file = "art_direction_style_guide.txt"}
                 IN /\ \A pieceType \in PieceType :
                         {f \in files : f.file = ExpectedFileName[pieceType]} =
                           IF pieceType \in WithImage
                           THEN {[file |-> ExpectedFileName[pieceType],
                                  content |-> chessSet[pieceType].imageUrl]}
                           ELSE {}
                    /\ guideEntries =
                         IF styleGuide # Null /\ styleGuide # ""
                         THEN {[file |-> "art_direction_style_guide.txt",
                                content |-> styleGuide]}
                         ELSE {}
                    /\ Cardinality(files) =
                         Cardinality(WithImage) + Cardinality(guideEntries) ]_vars

\* An archive has been produced for a set in which three kinds hold an image
\* and three do not, with a style guide: it holds four entries.
C23_Witness ==
  /\ Len(downloads) > 0
  /\ Cardinality(WithImage) = 3
  /\ styleGuide \in GuideTexts
  /\ Cardinality(downloads[1].files) = 4
  /\ \E f \in downloads[1].files : f.file = "art_direction_style_guide.txt"

\* C25: from a Clear until the next generation the user starts, every record
\* is without image and without prompt and the style guide is absent.
C25_ClearDurable ==
  cleared
  => /\ \A pieceType \in PieceType :
          /\ chessSet[pieceType].imageUrl = Null
          /\ chessSet[pieceType].promptUsed = Undefined
     /\ styleGuide = Null

====
